---- MODULE Spec2Model ----
(***************************************************************************)
(* The api key plugin of kanali: ApiKeyFactory.OnRequest in its two        *)
(* revisions held by the repository,                                       *)
(*   "plugin"  : src/plugin.go          (proxy lookup, pluginConfig.New,   *)
(*               Contains / ContainsApiKey / GetRuleAndRate; the rate gate *)
(*               and the traffic report are commented out),                *)
(*   "part000" : src/unnamed/part_000   (ApiKeyBindingStore().Get, the     *)
(*               rate gate and the asynchronous traffic report),           *)
(* together with the stores they read: the credential store and the        *)
(* binding store (changed by the external updater at any moment) and the   *)
(* traffic store (written by the detached ReportTraffic goroutines).       *)
(*                                                                         *)
(* A call of OnRequest is a process: one step per read of a shared store,  *)
(* the local computation that follows a read belonging to the same step.   *)
(* Strings that the code folds with strings.ToUpper are sequences of       *)
(* one-character strings, so that the folding is computed.                 *)
(***************************************************************************)
EXTENDS Naturals, Sequences, FiniteSets, TLC

\* Bounds of the model.
NumProcs == 2
MaxRequests == 2
RateAmount == 1

Procs == 1..NumProcs

VARIABLES
    config,        \* the plugin configuration of the route (map[string]string)
    apiKeyStore,   \* store.ApiKeyStore(): api key text -> ApiKey name
    bindingStore,  \* store.ApiKeyBindingStore(): binding name -> (ApiKey name -> Rule)
    trafficStore,  \* store.TrafficStore(): traffic points recorded in the window
    reporting,     \* ReportTraffic goroutines dispatched and not yet finished
    admitted,      \* traffic points dispatched so far (requests let past the rate gate)
    pc,            \* position of each call of OnRequest
    handler,       \* the revision of OnRequest that serves the call
    method,        \* r.Method
    apiKeyHeader,  \* r.Header.Get("apikey")
    apiKeyObj,     \* ObjectMeta.Name of the ApiKey found, "" before
    rule,          \* the *v2.Rule read: <<>> is nil, <<r>> points to r
    authz,         \* what validateApiKey returned: "none" before it is called
    ran,           \* the stages the call has run, in order
    result,        \* the error returned: "next" is nil
    sent,          \* the TrafficPoints this call dispatched
    violated,      \* what IsRateLimitViolated answered: "none" before it is asked
    justified      \* history: some state during the call justified an allow

vars == <<config, apiKeyStore, bindingStore, trafficStore, reporting, admitted,
          pc, handler, method, apiKeyHeader, apiKeyObj, rule, authz, ran,
          result, sent, violated, justified>>

-----------------------------------------------------------------------------
\* strings.ToUpper over the letters the methods and verbs use

LowerChars == <<"e", "g", "i", "n", "o", "p", "s", "t">>
UpperChars == <<"E", "G", "I", "N", "O", "P", "S", "T">>

ToUpperChar(c) ==
    IF \E i \in DOMAIN LowerChars : LowerChars[i] = c
    THEN UpperChars[CHOOSE i \in DOMAIN LowerChars : LowerChars[i] = c]
    ELSE c

ToUpper(s) == [i \in DOMAIN s |-> ToUpperChar(s[i])]

OPTIONS == <<"O", "P", "T", "I", "O", "N", "S">>

Methods ==
    { <<"G", "E", "T">>, <<"g", "e", "t">>, <<"P", "O", "S", "T">>,
      OPTIONS, <<"O", "p", "t", "i", "o", "n", "s">> }

VerbLists ==
    { <<>>,
      << <<"g", "e", "t">> >>,
      << <<"P", "O", "S", "T">>, <<"G", "e", "t">> >> }

\* v2.Rule{Global, Granular{Verbs}}
Rules == [Global : BOOLEAN, Granular : [Verbs : VerbLists]]

-----------------------------------------------------------------------------
\* The stores

Namespace == "ns"
BindingName == "b1"
KeyText == "k1"
KeyName == "n1"

EmptyMap == [x \in {} |-> ""]

Configs == { EmptyMap, ("apiKeyBindingName" :> BindingName) }

\* config["apiKeyBindingName"]: a missing key of a Go map reads as ""
ConfigGet(cfg, k) == IF k \in DOMAIN cfg THEN cfg[k] ELSE ""

\* pluginConfig.New: an error for a configuration without apiKeyBindingName
ConfigErr(cfg) == ConfigGet(cfg, "apiKeyBindingName") = ""

ApiKeyStores == { EmptyMap, (KeyText :> KeyName) }

KeyTables == { EmptyMap } \cup { (KeyName :> r) : r \in Rules }

BindingStores == { EmptyMap } \cup { (BindingName :> t) : t \in KeyTables }

\* store.ApiKeyStore().Get(text): <<>> is nil
ApiKeyStoreGet(aks, text) == IF text \in DOMAIN aks THEN <<aks[text]>> ELSE <<>>

\* store.ApiKeyBindingStore().Contains(namespace, name)
Contains(bs, name) == name \in DOMAIN bs

\* store.ApiKeyBindingStore().ContainsApiKey(namespace, name, keyName)
ContainsApiKey(bs, name, key) == name \in DOMAIN bs /\ key \in DOMAIN bs[name]

\* store.ApiKeyBindingStore().GetRuleAndRate / Get: the rule, <<>> when there is none
GetRuleAndRate(bs, name, key) ==
    IF ContainsApiKey(bs, name, key) THEN <<bs[name][key]>> ELSE <<>>

\* store.TrafficStore().IsRateLimitViolated: the recorded points reach the ceiling
IsRateLimitViolated(count) == count >= RateAmount

\* store.TrafficPoint{Namespace, ProxyName, KeyName}
TrafficPoint(cfg, key) ==
    [Namespace |-> Namespace, ProxyName |-> ConfigGet(cfg, "apiKeyBindingName"),
     KeyName |-> key]

-----------------------------------------------------------------------------
\* The decision engine

\* A verb comparison that forgets strings.ToUpper
validateGranularRules_CaseSensitive(m, granular) ==
    \E i \in 1..Len(granular.Verbs) : granular.Verbs[i] = m

validateGranularRules(m, granular) ==
    IF Len(granular.Verbs) < 1
    THEN FALSE
    ELSE \E i \in 1..Len(granular.Verbs) : ToUpper(granular.Verbs[i]) = ToUpper(m)

\* A precedence slip: the granular verbs gate the global flag
validateApiKey_GranularGates(r, m) ==
    IF r = <<>> THEN FALSE
    ELSE r[1].Global /\ validateGranularRules(m, r[1].Granular)

\* plugin.go: rule is a pointer, <<>> is nil
validateApiKey(r, m) ==
    IF r = <<>> THEN FALSE
    ELSE r[1].Global \/ validateGranularRules(m, r[1].Granular)

\* part_000: rule is a value
validateAPIKey(r, m) == r.Global \/ validateGranularRules(m, r.Granular)

\* An OPTIONS exit that compares r.Method as it is
IsOptionsRequest_CaseSensitive(m) == m = OPTIONS

\* strings.ToUpper(r.Method) == "OPTIONS"
IsOptionsRequest(m) == ToUpper(m) = OPTIONS

\* extractApiKey: an error for an empty header
ExtractFails(text) == Len(text) < 1

next == "next"
StatusUnauthorized == "401"
StatusTooManyRequests == "429"
ErrorProxyNotFound == "ErrorProxyNotFound"

failure(code) == code

-----------------------------------------------------------------------------
\* History: a state of the stores that by itself justifies allowing the call

Justifies(cfg, aks, bs, text, m) ==
    /\ text \in DOMAIN aks
    /\ LET name == ConfigGet(cfg, "apiKeyBindingName")
       IN  /\ Contains(bs, name)
           /\ ContainsApiKey(bs, name, aks[text])
           /\ validateApiKey(GetRuleAndRate(bs, name, aks[text]), m)

InFlight(position) == position \notin {"idle", "done"}

Track ==
    justified' =
        [q \in Procs |->
            IF InFlight(pc'[q])
            THEN justified[q]
                 \/ Justifies(config', apiKeyStore', bindingStore',
                              apiKeyHeader'[q], method'[q])
            ELSE pc'[q] = "done" /\ justified[q]]

Handlers == {"plugin", "part000"}
Headers == {"", KeyText}

Init ==
    /\ config \in Configs
    /\ apiKeyStore \in ApiKeyStores
    /\ bindingStore \in BindingStores
    /\ trafficStore = 0
    /\ reporting = 0
    /\ admitted = 0
    /\ pc = [p \in Procs |-> "idle"]
    /\ handler = [p \in Procs |-> "plugin"]
    /\ method = [p \in Procs |-> OPTIONS]
    /\ apiKeyHeader = [p \in Procs |-> ""]
    /\ apiKeyObj = [p \in Procs |-> ""]
    /\ rule = [p \in Procs |-> <<>>]
    /\ authz = [p \in Procs |-> "none"]
    /\ ran = [p \in Procs |-> <<>>]
    /\ result = [p \in Procs |-> "none"]
    /\ sent = [p \in Procs |-> <<>>]
    /\ violated = [p \in Procs |-> "none"]
    /\ justified = [p \in Procs |-> FALSE]

StoresUnchanged == UNCHANGED <<config, apiKeyStore, bindingStore>>
TrafficUnchanged == UNCHANGED <<trafficStore, reporting, admitted>>
InputsUnchanged == UNCHANGED <<handler, method, apiKeyHeader>>

\* return err: the call is over
Return(p, err) ==
    /\ pc' = [pc EXCEPT ![p] = "done"]
    /\ result' = [result EXCEPT ![p] = err]

\* fall through to the next read
Goto(p, position) ==
    /\ pc' = [pc EXCEPT ![p] = position]
    /\ UNCHANGED result

Ran(p, stage) == ran' = [ran EXCEPT ![p] = Append(@, stage)]

-----------------------------------------------------------------------------
\* The gateway calls OnRequest for a request; at most `limit` calls are open

Begin(p, limit, hs) ==
    /\ pc[p] = "idle"
    /\ Cardinality({q \in Procs : pc[q] # "idle"}) < limit
    /\ admitted < MaxRequests
    /\ \E h \in hs, m \in Methods, k \in Headers :
          /\ handler' = [handler EXCEPT ![p] = h]
          /\ method' = [method EXCEPT ![p] = m]
          /\ apiKeyHeader' = [apiKeyHeader EXCEPT ![p] = k]
    /\ pc' = [pc EXCEPT ![p] = "start"]
    /\ UNCHANGED <<apiKeyObj, rule, authz, ran, result, sent, violated>>
    /\ StoresUnchanged /\ TrafficUnchanged
    /\ Track

\* The gateway has taken the returned error; the slot is free again
Finish(p) ==
    /\ pc[p] = "done"
    /\ pc' = [pc EXCEPT ![p] = "idle"]
    /\ handler' = [handler EXCEPT ![p] = "plugin"]
    /\ method' = [method EXCEPT ![p] = OPTIONS]
    /\ apiKeyHeader' = [apiKeyHeader EXCEPT ![p] = ""]
    /\ apiKeyObj' = [apiKeyObj EXCEPT ![p] = ""]
    /\ rule' = [rule EXCEPT ![p] = <<>>]
    /\ authz' = [authz EXCEPT ![p] = "none"]
    /\ ran' = [ran EXCEPT ![p] = <<>>]
    /\ result' = [result EXCEPT ![p] = "none"]
    /\ sent' = [sent EXCEPT ![p] = <<>>]
    /\ violated' = [violated EXCEPT ![p] = "none"]
    /\ StoresUnchanged /\ TrafficUnchanged
    /\ Track

-----------------------------------------------------------------------------
\* src/plugin.go, OnRequest

\* lines 68-95: proxy lookup, pluginConfig.New, the OPTIONS exit, extractApiKey
OnRequest_Entry(p) ==
    /\ pc[p] = "start" /\ handler[p] = "plugin"
    /\ \E found \in BOOLEAN :
          IF ~found
          THEN Return(p, ErrorProxyNotFound) /\ UNCHANGED ran
          ELSE IF ConfigErr(config)
          THEN Return(p, failure(StatusUnauthorized)) /\ UNCHANGED ran
          ELSE IF IsOptionsRequest(method[p])
          THEN Return(p, next) /\ UNCHANGED ran
          ELSE IF ExtractFails(apiKeyHeader[p])
          THEN Return(p, failure(StatusUnauthorized)) /\ Ran(p, "extract")
          ELSE Goto(p, "getKey") /\ Ran(p, "extract")
    /\ UNCHANGED <<apiKeyObj, rule, authz, sent, violated>>
    /\ InputsUnchanged /\ StoresUnchanged /\ TrafficUnchanged
    /\ Track

\* lines 97-102: store.ApiKeyStore().Get
OnRequest_GetApiKey(p) ==
    /\ pc[p] = "getKey" /\ handler[p] = "plugin"
    /\ LET obj == ApiKeyStoreGet(apiKeyStore, apiKeyHeader[p])
       IN  IF obj = <<>>
           THEN Return(p, failure(StatusUnauthorized)) /\ UNCHANGED apiKeyObj
           ELSE Goto(p, "contains") /\ apiKeyObj' = [apiKeyObj EXCEPT ![p] = obj[1]]
    /\ Ran(p, "credential")
    /\ UNCHANGED <<rule, authz, sent, violated>>
    /\ InputsUnchanged /\ StoresUnchanged /\ TrafficUnchanged
    /\ Track

\* lines 116-122: store.ApiKeyBindingStore().Contains
OnRequest_Contains(p) ==
    /\ pc[p] = "contains" /\ handler[p] = "plugin"
    /\ IF ~Contains(bindingStore, ConfigGet(config, "apiKeyBindingName"))
       THEN Return(p, failure(StatusUnauthorized))
       ELSE Goto(p, "containsKey")
    /\ Ran(p, "binding")
    /\ UNCHANGED <<apiKeyObj, rule, authz, sent, violated>>
    /\ InputsUnchanged /\ StoresUnchanged /\ TrafficUnchanged
    /\ Track

\* A handler that skips the ContainsApiKey check
OnRequest_ContainsApiKey_Skipped(p) ==
    /\ pc[p] = "containsKey" /\ handler[p] = "plugin"
    /\ Goto(p, "authorize")
    /\ UNCHANGED <<apiKeyObj, rule, authz, ran, sent, violated>>
    /\ InputsUnchanged /\ StoresUnchanged /\ TrafficUnchanged
    /\ Track

\* lines 131-138: store.ApiKeyBindingStore().ContainsApiKey
OnRequest_ContainsApiKey(p) ==
    /\ pc[p] = "containsKey" /\ handler[p] = "plugin"
    /\ IF ~ContainsApiKey(bindingStore, ConfigGet(config, "apiKeyBindingName"),
                          apiKeyObj[p])
       THEN Return(p, failure(StatusUnauthorized))
       ELSE Goto(p, "authorize")
    /\ UNCHANGED <<apiKeyObj, rule, authz, ran, sent, violated>>
    /\ InputsUnchanged /\ StoresUnchanged /\ TrafficUnchanged
    /\ Track

\* lines 140-158: GetRuleAndRate, validateApiKey, next()
OnRequest_Authorize(p) ==
    /\ pc[p] = "authorize" /\ handler[p] = "plugin"
    /\ LET r == GetRuleAndRate(bindingStore,
                               ConfigGet(config, "apiKeyBindingName"), apiKeyObj[p])
           ok == validateApiKey(r, method[p])
       IN  /\ rule' = [rule EXCEPT ![p] = r]
           /\ authz' = [authz EXCEPT ![p] = IF ok THEN "true" ELSE "false"]
           /\ IF ~ok
              THEN Return(p, failure(StatusUnauthorized))
              ELSE Return(p, next)
    /\ Ran(p, "authorize")
    /\ UNCHANGED <<apiKeyObj, sent, violated>>
    /\ InputsUnchanged /\ StoresUnchanged /\ TrafficUnchanged
    /\ Track

-----------------------------------------------------------------------------
\* src/unnamed/part_000, OnRequest

\* lines 74-85: the OPTIONS exit, the api key header
OnRequestV1_Entry(p) ==
    /\ pc[p] = "start" /\ handler[p] = "part000"
    /\ IF IsOptionsRequest(method[p])
       THEN Return(p, next) /\ UNCHANGED ran
       ELSE IF Len(apiKeyHeader[p]) < 1
       THEN Return(p, failure(StatusUnauthorized)) /\ Ran(p, "extract")
       ELSE Goto(p, "getKey") /\ Ran(p, "extract")
    /\ UNCHANGED <<apiKeyObj, rule, authz, sent, violated>>
    /\ InputsUnchanged /\ StoresUnchanged /\ TrafficUnchanged
    /\ Track

\* lines 87-94: store.ApiKeyStore().Get
OnRequestV1_GetApiKey(p) ==
    /\ pc[p] = "getKey" /\ handler[p] = "part000"
    /\ LET key == ApiKeyStoreGet(apiKeyStore, apiKeyHeader[p])
       IN  IF key = <<>>
           THEN Return(p, failure(StatusUnauthorized)) /\ UNCHANGED apiKeyObj
           ELSE Goto(p, "getBinding") /\ apiKeyObj' = [apiKeyObj EXCEPT ![p] = key[1]]
    /\ Ran(p, "credential")
    /\ UNCHANGED <<rule, authz, sent, violated>>
    /\ InputsUnchanged /\ StoresUnchanged /\ TrafficUnchanged
    /\ Track

\* lines 96-106: store.ApiKeyBindingStore().Get, validateAPIKey
OnRequestV1_GetBinding(p) ==
    /\ pc[p] = "getBinding" /\ handler[p] = "part000"
    /\ LET r == GetRuleAndRate(bindingStore,
                               ConfigGet(config, "apiKeyBindingName"), apiKeyObj[p])
       IN  /\ rule' = [rule EXCEPT ![p] = r]
           /\ IF r = <<>>
              THEN /\ Return(p, failure(StatusUnauthorized))
                   /\ Ran(p, "binding")
                   /\ UNCHANGED authz
              ELSE LET ok == validateAPIKey(r[1], method[p])
                   IN  /\ authz' = [authz EXCEPT ![p] = IF ok THEN "true" ELSE "false"]
                       /\ ran' = [ran EXCEPT ![p] = @ \o <<"binding", "authorize">>]
                       /\ IF ~ok
                          THEN Return(p, failure(StatusUnauthorized))
                          ELSE Goto(p, "rate")
    /\ UNCHANGED <<apiKeyObj, sent, violated>>
    /\ InputsUnchanged /\ StoresUnchanged /\ TrafficUnchanged
    /\ Track

\* A rate gate that delays a violating request and then lets it through
OnRequestV1_RateLimit_Delays(p) ==
    /\ pc[p] = "rate" /\ handler[p] = "part000"
    /\ violated' = [violated EXCEPT ![p] =
                        IF IsRateLimitViolated(trafficStore) THEN "true" ELSE "false"]
    /\ sent' = [sent EXCEPT ![p] = Append(@, TrafficPoint(config, apiKeyObj[p]))]
    /\ reporting' = reporting + 1
    /\ admitted' = admitted + 1
    /\ Return(p, next)
    /\ Ran(p, "rate")
    /\ UNCHANGED <<apiKeyObj, rule, authz, trafficStore>>
    /\ InputsUnchanged /\ StoresUnchanged
    /\ Track

\* A rate gate that calls ReportTraffic without `go` and waits for the write
OnRequestV1_RateLimit_Waits(p) ==
    /\ pc[p] = "rate" /\ handler[p] = "part000"
    /\ violated' = [violated EXCEPT ![p] =
                        IF IsRateLimitViolated(trafficStore) THEN "true" ELSE "false"]
    /\ IF IsRateLimitViolated(trafficStore)
       THEN /\ Return(p, failure(StatusTooManyRequests))
            /\ UNCHANGED <<sent, reporting, admitted>>
       ELSE /\ sent' = [sent EXCEPT ![p] = Append(@, TrafficPoint(config, apiKeyObj[p]))]
            /\ reporting' = reporting + 1
            /\ admitted' = admitted + 1
            /\ Goto(p, "reporting")
    /\ Ran(p, "rate")
    /\ UNCHANGED <<apiKeyObj, rule, authz, trafficStore>>
    /\ InputsUnchanged /\ StoresUnchanged
    /\ Track

\* lines 108-118: IsRateLimitViolated, go etcdCtlr.ReportTraffic, return nil
OnRequestV1_RateLimit(p) ==
    /\ pc[p] = "rate" /\ handler[p] = "part000"
    /\ violated' = [violated EXCEPT ![p] =
                        IF IsRateLimitViolated(trafficStore) THEN "true" ELSE "false"]
    /\ IF IsRateLimitViolated(trafficStore)
       THEN /\ Return(p, failure(StatusTooManyRequests))
            /\ UNCHANGED <<sent, reporting, admitted>>
       ELSE /\ sent' = [sent EXCEPT ![p] = Append(@, TrafficPoint(config, apiKeyObj[p]))]
            /\ reporting' = reporting + 1
            /\ admitted' = admitted + 1
            /\ Return(p, next)
    /\ Ran(p, "rate")
    /\ UNCHANGED <<apiKeyObj, rule, authz, trafficStore>>
    /\ InputsUnchanged /\ StoresUnchanged
    /\ Track

-----------------------------------------------------------------------------
\* The detached goroutine of line 112: the write reaches the traffic store ...
ReportTraffic ==
    /\ reporting > 0
    /\ reporting' = reporting - 1
    /\ trafficStore' = trafficStore + 1
    /\ UNCHANGED <<admitted, pc, result, apiKeyObj, rule, authz, ran, sent, violated>>
    /\ InputsUnchanged /\ StoresUnchanged
    /\ Track

\* ... or fails, and the failure is swallowed
ReportTrafficFails ==
    /\ reporting > 0
    /\ reporting' = reporting - 1
    /\ UNCHANGED <<trafficStore, admitted, pc, result, apiKeyObj, rule, authz, ran, sent, violated>>
    /\ InputsUnchanged /\ StoresUnchanged
    /\ Track

\* The external updater of the read-through caches
UpdateApiKeyStore ==
    /\ \E s \in ApiKeyStores \ {apiKeyStore} : apiKeyStore' = s
    /\ UNCHANGED <<config, bindingStore, pc, result, apiKeyObj, rule, authz, ran, sent, violated>>
    /\ InputsUnchanged /\ TrafficUnchanged
    /\ Track

UpdateBindingStore ==
    /\ \E s \in BindingStores \ {bindingStore} : bindingStore' = s
    /\ UNCHANGED <<config, apiKeyStore, pc, result, apiKeyObj, rule, authz, ran, sent, violated>>
    /\ InputsUnchanged /\ TrafficUnchanged
    /\ Track

-----------------------------------------------------------------------------
\* One call of OnRequest open at a time, either revision, while the updater and
\* the report goroutines run: calls share nothing but the stores.
Next ==
    \/ \E p \in Procs : Begin(p, 1, Handlers)
    \/ \E p \in Procs : Finish(p)
    \/ \E p \in Procs : OnRequest_Entry(p)
    \/ \E p \in Procs : OnRequest_GetApiKey(p)
    \/ \E p \in Procs : OnRequest_Contains(p)
    \/ \E p \in Procs : OnRequest_ContainsApiKey(p)
    \/ \E p \in Procs : OnRequest_Authorize(p)
    \/ \E p \in Procs : OnRequestV1_Entry(p)
    \/ \E p \in Procs : OnRequestV1_GetApiKey(p)
    \/ \E p \in Procs : OnRequestV1_GetBinding(p)
    \/ \E p \in Procs : OnRequestV1_RateLimit(p)
    \/ ReportTraffic
    \/ ReportTrafficFails
    \/ UpdateApiKeyStore
    \/ UpdateBindingStore

Spec == Init /\ [][Next]_vars

\* Concurrent calls of the rate-gated revision against fixed credential and
\* binding stores, every dispatched report eventually able to reach the store.
NextConc ==
    \/ \E p \in Procs : Begin(p, NumProcs, {"part000"})
    \/ \E p \in Procs : Finish(p)
    \/ \E p \in Procs : OnRequestV1_Entry(p)
    \/ \E p \in Procs : OnRequestV1_GetApiKey(p)
    \/ \E p \in Procs : OnRequestV1_GetBinding(p)
    \/ \E p \in Procs : OnRequestV1_RateLimit(p)
    \/ ReportTraffic

SpecConc == Init /\ [][NextConc]_vars

-----------------------------------------------------------------------------
\* What the claims speak of

\* two strings equal up to the case of their letters
ToLowerChar(c) ==
    IF \E i \in DOMAIN UpperChars : UpperChars[i] = c
    THEN LowerChars[CHOOSE i \in DOMAIN UpperChars : UpperChars[i] = c]
    ELSE c

EqualFold(a, b) ==
    /\ Len(a) = Len(b)
    /\ \A i \in 1..Len(a) : ToLowerChar(a[i]) = ToLowerChar(b[i])

\* a call that has returned for an OPTIONS request
OptionsDone(p) == pc[p] = "done" /\ EqualFold(method[p], OPTIONS)

\* a call that has returned nil for a request that is not OPTIONS
AllowedDone(p) ==
    pc[p] = "done" /\ result[p] = next /\ ~EqualFold(method[p], OPTIONS)

StageOrder == <<"extract", "credential", "binding", "authorize", "rate">>

IsPrefix(s, t) == Len(s) <= Len(t) /\ s = SubSeq(t, 1, Len(s))

-----------------------------------------------------------------------------
\* C1 (as stated): every OPTIONS request, whatever its case, is allowed whatever
\* the configuration, the proxy lookup, the header and the stores hold, and
\* validateApiKey is never evaluated for it.
C1_OptionsAlwaysAllowed ==
    \A p \in Procs :
        OptionsDone(p) => result[p] = next /\ authz[p] = "none"

\* C1 (amended): an OPTIONS request never runs a stage nor validateApiKey, and it
\* is allowed unless plugin.go finds no proxy for it (ErrorProxyNotFound) or
\* pluginConfig.New rejects the configuration (401); part_000 allows all of them.
C1_OptionsAllowedOnceRouted ==
    \A p \in Procs :
        (pc[p] # "idle" /\ EqualFold(method[p], OPTIONS)) =>
            /\ authz[p] = "none" /\ ran[p] = <<>> /\ rule[p] = <<>>
            /\ pc[p] \in {"start", "done"}
            /\ pc[p] = "done" =>
                 \/ result[p] = next
                 \/ result[p] = ErrorProxyNotFound /\ handler[p] = "plugin"
                 \/ /\ result[p] = failure(StatusUnauthorized)
                    /\ handler[p] = "plugin" /\ ConfigErr(config)
            /\ (pc[p] = "done" /\ handler[p] = "plugin" /\ ConfigErr(config))
                 => result[p] # next

\* C1 witness: plugin.go has allowed a mixed-case OPTIONS request that carries no
\* api key while the credential and binding stores are empty.
C1_Witness ==
    \E p \in Procs :
        /\ OptionsDone(p) /\ method[p] # OPTIONS /\ handler[p] = "plugin"
        /\ result[p] = next /\ apiKeyHeader[p] = ""
        /\ apiKeyStore = EmptyMap /\ bindingStore = EmptyMap

\* C2: whenever validateApiKey was evaluated on a rule with Global = true it
\* returned true, for every method and every verb list, the empty one included.
C2_GlobalAlwaysAuthorizes ==
    \A p \in Procs :
        (authz[p] # "none" /\ rule[p] # <<>> /\ rule[p][1].Global) =>
            authz[p] = "true"

\* C2 witness: plugin.go authorized a POST under a global rule with no verbs.
C2_Witness ==
    \E p \in Procs :
        /\ handler[p] = "plugin" /\ authz[p] = "true"
        /\ rule[p] # <<>> /\ rule[p][1].Global
        /\ rule[p][1].Granular.Verbs = <<>>
        /\ method[p] = <<"P", "O", "S", "T">>

\* C3: for a nil rule or a rule with Global = false, validateApiKey returned true
\* exactly when the rule is present and some verb equals the method up to case.
C3_GranularIffVerbMatches ==
    \A p \in Procs :
        (authz[p] # "none" /\ (rule[p] = <<>> \/ ~rule[p][1].Global)) =>
            ((authz[p] = "true") <=>
                /\ rule[p] # <<>>
                /\ \E i \in 1..Len(rule[p][1].Granular.Verbs) :
                       EqualFold(rule[p][1].Granular.Verbs[i], method[p]))

\* C3 witness: a granular rule matched its second verb, which differs from the
\* method in case only.
C3_Witness ==
    \E p \in Procs :
        /\ authz[p] = "true" /\ rule[p] # <<>> /\ ~rule[p][1].Global
        /\ method[p] = <<"g", "e", "t">>
        /\ rule[p][1].Granular.Verbs = << <<"P", "O", "S", "T">>, <<"G", "e", "t">> >>

\* C4: a request that is not OPTIONS runs extract, credential, binding, authorize
\* and rate in that order, stops at the first stage that fails, and is allowed
\* only after all five have passed.
C4_StagesInOrderFailClosed ==
    \A p \in Procs :
        (pc[p] = "done" /\ ran[p] # <<>>) =>
            /\ IsPrefix(ran[p], StageOrder)
            /\ result[p] \in {next, failure(StatusUnauthorized),
                              failure(StatusTooManyRequests)}
            /\ result[p] = next =>
                 /\ ran[p] = StageOrder
                 /\ apiKeyHeader[p] # "" /\ apiKeyObj[p] # ""
                 /\ authz[p] = "true" /\ violated[p] = "false"

\* C5: a returned call has dispatched exactly one Traffic Event, carrying its
\* namespace, binding name and credential name, if it allowed a request that is
\* not OPTIONS, and none otherwise.
C5_TrafficEventIffAllowed ==
    \A p \in Procs :
        pc[p] = "done" =>
            sent[p] = IF AllowedDone(p)
                      THEN <<TrafficPoint(config, apiKeyObj[p])>>
                      ELSE <<>>

C7_MalformedConfigDenied ==
    \A p \in Procs :
        (pc[p] = "done" /\ ConfigErr(config) /\ result[p] # ErrorProxyNotFound) =>
            result[p] = failure(StatusUnauthorized)

\* C8: the step that dispatches a Traffic Event returns nil in the same step, a
\* step in which a report ends (written or failed) changes no call's position or
\* result, and a returned result never changes.
C8_ReportIsFireAndForget ==
    [][ /\ reporting' > reporting =>
             \E p \in Procs :
                 /\ pc[p] = "rate" /\ pc'[p] = "done" /\ result'[p] = next
                 /\ Len(sent'[p]) = Len(sent[p]) + 1
        /\ reporting' < reporting => (pc' = pc /\ result' = result)
        /\ \A p \in Procs :
             (pc[p] = "done" /\ pc'[p] = "done") => result'[p] = result[p]
      ]_vars

\* C8 witness: a call has returned nil, its only report has failed (nothing is
\* pending and nothing was recorded).
C8_Witness ==
    \E p \in Procs :
        /\ pc[p] = "done" /\ result[p] = next /\ sent[p] # <<>>
        /\ admitted = 1 /\ reporting = 0 /\ trafficStore = 0

\* C9: the number of requests the rate gate has allowed within the window never
\* exceeds the policy's ceiling.
C9_AllowedWithinCeiling == admitted <= RateAmount

\* C10 (as stated): for every request that is not OPTIONS and that plugin.go
\* allowed, some single state during the call had the credential in the store,
\* the binding present and granting it, and the rule allowing the method.
C10_AllowJustifiedByOneState ==
    \A p \in Procs :
        (AllowedDone(p) /\ handler[p] = "plugin" /\ ran[p] # <<>>) => justified[p]

\* C10 (amended): each check is passed against the state of its own read: a call
\* leaves the credential lookup only when the store holds the key, leaves
\* Contains only when the binding exists, leaves ContainsApiKey only when the
\* binding grants the credential found, and passes the authorization only when
\* the rule then read allows the method. The reads may see different states.
C10_EachCheckHeldAtItsRead ==
    [][ \A p \in Procs :
          LET name == ConfigGet(config, "apiKeyBindingName") IN
          /\ (pc[p] = "getKey" /\ pc'[p] \notin {"getKey", "done"}) =>
                /\ apiKeyHeader[p] \in DOMAIN apiKeyStore
                /\ apiKeyObj'[p] = apiKeyStore[apiKeyHeader[p]]
          /\ (pc[p] = "contains" /\ pc'[p] \notin {"contains", "done"}) =>
                name \in DOMAIN bindingStore
          /\ (pc[p] = "containsKey" /\ pc'[p] \notin {"containsKey", "done"}) =>
                /\ name \in DOMAIN bindingStore
                /\ apiKeyObj[p] \in DOMAIN bindingStore[name]
          /\ (pc[p] \in {"authorize", "getBinding"}
                /\ (pc'[p] = "rate" \/ (pc'[p] = "done" /\ result'[p] = next))) =>
                /\ name \in DOMAIN bindingStore
                /\ apiKeyObj[p] \in DOMAIN bindingStore[name]
                /\ rule'[p] = <<bindingStore[name][apiKeyObj[p]]>>
                /\ authz'[p] = "true"
          /\ (pc[p] # "done" /\ pc'[p] = "done" /\ result'[p] = next
                /\ ran'[p] # <<>>) =>
                SubSeq(StageOrder, 1, 4) = SubSeq(ran'[p], 1, 4)
      ]_vars

\* C10 witness: plugin.go has allowed a request whose credential is no longer in
\* the store, and no state during the call justified the allow.
C10_Witness ==
    \E p \in Procs :
        /\ AllowedDone(p) /\ handler[p] = "plugin" /\ ran[p] # <<>>
        /\ ~justified[p]
        /\ apiKeyHeader[p] \notin DOMAIN apiKeyStore

====
